---------------------------- MODULE Spec2Model ----------------------------
(***************************************************************************)
(* Model of the multi-server MCP client of divyam1408/mcp_chatbot.         *)
(*                                                                         *)
(*   src/mcp_client_manager.py  class MCPClientManager: connect_all,       *)
(*                              _discover_capabilities, call_tool,         *)
(*                              get_tool_schema (specifications Spec,      *)
(*                              DiscoverSpec, ToolSpec).                   *)
(*   src/mcp_chatbot.py         class MCP_ChatBot:                         *)
(*                              connect_to_servers_and_run, process_query, *)
(*                              get_resource, list_prompts, execute_prompt,*)
(*                              the teardown (specifications BotSpec,      *)
(*                              ResolveSpec, PromptSpec).                  *)
(*                                                                         *)
(* Both classes keep the same fields (sessions, the four routing maps and  *)
(* the four presentation lists); the variables below carry the fields of   *)
(* the object of the specification being checked.                          *)
(*                                                                         *)
(* A Python dict is modelled as the sequence of its <<key, value>> pairs   *)
(* in insertion order (assigning to an existing key keeps its place).      *)
(* A string that the code takes apart (a URI, a template, a prompt text)   *)
(* is a sequence of one-character strings; a string only compared for      *)
(* equality (a server, tool or prompt name) is a TLA+ string.              *)
(* A session is identified by the index of the descriptor whose iteration  *)
(* created it.                                                             *)
(***************************************************************************)
EXTENDS Integers, Sequences, FiniteSets, TLC

VARIABLES
    server_configs,                 \* self.server_configs / self.server_config
    sessions,                       \* dict server name -> session
    tool_to_server,                 \* dict tool name -> server name
    resource_to_server,             \* dict resource uri -> server name
    resource_templates_to_server,   \* dict uri template -> server name
    prompt_to_server,               \* dict prompt name -> server name
    available_tools,                \* list of function-call schemas
    available_resources,            \* list of resource entries
    available_resource_templates,   \* list of template entries
    available_prompts,              \* list of prompt entries
    stack,                          \* the AsyncExitStack handed to connect_all
    server_contexts,                \* the chatbot's list of entered contexts
    pc,                             \* position of the running coroutine
    idx,                            \* index of the next descriptor of the loop
    behaviour,                      \* per processed descriptor: what its server did
    log,                            \* per processed descriptor: what the code did
    acquired,                       \* the contexts whose __aenter__ returned, in order
    released,                       \* teardown: the contexts whose __aexit__ ran
    result,                         \* outcome of the last query-layer operation
    messages                        \* process_query's conversation (a local)

registries == <<tool_to_server, resource_to_server, resource_templates_to_server,
                prompt_to_server, available_tools, available_resources,
                available_resource_templates, available_prompts>>

vars == <<server_configs, sessions, tool_to_server, resource_to_server,
          resource_templates_to_server, prompt_to_server, available_tools,
          available_resources, available_resource_templates, available_prompts,
          stack, server_contexts, pc, idx, behaviour, log, acquired, released,
          result, messages>>

-----------------------------------------------------------------------------
(* Bounds                                                                  *)

\* Longest list of configured servers.
MaxServers == 2

\* Longest tool listing one server returns.
MaxList == 1

\* Longest template listing of a server where resources are resolved.
MaxTemplates == 1

\* Longest template listing of a server where the order of the scan matters.
MaxScan == 2

-----------------------------------------------------------------------------
(* Values                                                                  *)

\* Python's None: the result of dict.get on a missing key.
None == "None"

ServerNames == {"research", "weather"}
Transports == {"stdio", "sse", "http"}

\* Tool names the servers may advertise.
ToolNames == {"X", "Y"}
\* Resource uris, uri templates and prompt names the manager's servers advertise.
ResourceUris == {"r"}
TemplateUris == {"t"}
PromptNames == {"p"}

\* Python's truth test of a str or None: None and "" are false.
Truthy(x) == x # None /\ x # ""

\* All sequences over S of length at most n.
SeqUpTo(S, n) == UNION {[1..k -> S] : k \in 0..n}

-----------------------------------------------------------------------------
(* Python dict, as the sequence of its items                               *)

DictKeys(d) == {d[k][1] : k \in DOMAIN d}

DictHas(d, key) == key \in DictKeys(d)

DictGet(d, key) ==
    IF DictHas(d, key)
    THEN d[CHOOSE k \in DOMAIN d : d[k][1] = key][2]
    ELSE None

\* Variant: dict.setdefault, the first writer keeps the key.
DictSet_KeepFirst(d, key, value) ==
    IF DictHas(d, key) THEN d ELSE Append(d, <<key, value>>)

\* d[key] = value
DictSet(d, key, value) ==
    IF DictHas(d, key)
    THEN [k \in DOMAIN d |-> IF d[k][1] = key THEN <<key, value>> ELSE d[k]]
    ELSE Append(d, <<key, value>>)

\* for x in keys: d[x] = value
RECURSIVE DictSetAll(_, _, _)
DictSetAll(d, keys, value) ==
    IF keys = <<>> THEN d
    ELSE DictSetAll(DictSet(d, Head(keys), value), Tail(keys), value)

-----------------------------------------------------------------------------
(* Configuration and the servers' behaviour                                *)

\* A server descriptor of servers.json; url says whether the entry has a url.
Descriptors ==
    {d \in [name : ServerNames, transport : Transports, url : BOOLEAN] :
        d.transport = "stdio" => ~d.url}

\* The steps of one connection, in the order connect_all takes them.
ConnectSteps ==
    <<"create", "http_client", "transport", "session", "initialize", "list_tools">>

StepPos(step) == CHOOSE k \in DOMAIN ConnectSteps : ConnectSteps[k] = step

\* A response to one of the optional list calls: it raised (ok = FALSE) or
\* returned items (an empty response leaves the registries as a raise does).
Failing == [ok |-> FALSE, items |-> <<>>]

\* The call returns one item of S.
Returning(S) == {[ok |-> TRUE, items |-> <<x>>] : x \in S}

\* The call raises or returns up to n items of S.
ListingsUpTo(S, n) ==
    {Failing} \cup {[ok |-> TRUE, items |-> s] : s \in SeqUpTo(S, n) \ {<<>>}}

\* The call raises or returns up to n different items of S.
DistinctListingsUpTo(S, n) ==
    {l \in ListingsUpTo(S, n) :
        \A i, j \in DOMAIN l.items : l.items[i] = l.items[j] => i = j}

\* What a server does during its connection: the step that raises (or
\* "none"), the tool names list_tools returns (T) and the responses to the
\* optional list calls (R, M, P). A server that raises before list_tools
\* is never asked to list anything.
BehavioursOver(F, T, R, M, P) ==
    {[fail |-> f, tools |-> <<>>, resources |-> Failing, templates |-> Failing,
      prompts |-> Failing] : f \in F \ {"none", "list_tools"}}
    \cup {[fail |-> f, tools |-> <<>>, resources |-> r, templates |-> m,
           prompts |-> q] :
            f \in F \cap {"list_tools"}, r \in R, m \in M, q \in P}
    \cup {[fail |-> f, tools |-> t, resources |-> r, templates |-> m,
           prompts |-> q] :
            f \in F \cap {"none"}, t \in SeqUpTo(T, MaxList),
            r \in R, m \in M, q \in P}

AllSteps == {ConnectSteps[k] : k \in DOMAIN ConnectSteps} \cup {"none"}

\* The step succeeded: it comes before the step that raises.
Succeeded(b, step) == b.fail = "none" \/ StepPos(step) < StepPos(b.fail)

\* Variant: only the sse branch tests the url.
MissingUrl_SseOnly(server) == server.transport = "sse" /\ ~server.url

\* The descriptor lacks the url its transport requires.
MissingUrl(server) == server.transport \in {"sse", "http"} /\ ~server.url

-----------------------------------------------------------------------------
(* MCPClientManager                                                        *)

\* The entry appended to available_tools; inputSchema is identified by the
\* session that advertised it.
ToolEntry(name, schema) ==
    [type |-> "function", function |-> [name |-> name, parameters |-> schema]]

ResourceEntry(uri) == [uri |-> uri]

TemplateEntry(uriTemplate) == [uriTemplate |-> uriTemplate]

PromptEntry(name) == [name |-> name]

\* Variant: the http client is created but not entered on the exit stack.
Entered_ClientUnmanaged(server, i, b) ==
    (IF Succeeded(b, "transport")
        THEN <<[kind |-> "transport", server |-> i]>> ELSE <<>>)
    \o (IF Succeeded(b, "session")
        THEN <<[kind |-> "session", server |-> i]>> ELSE <<>>)

\* The contexts entered on the exit stack during one iteration.
Entered(server, i, b) ==
    (IF server.transport = "http" /\ Succeeded(b, "http_client")
        THEN <<[kind |-> "http_client", server |-> i]>> ELSE <<>>)
    \o (IF Succeeded(b, "transport")
        THEN <<[kind |-> "transport", server |-> i]>> ELSE <<>>)
    \o (IF Succeeded(b, "session")
        THEN <<[kind |-> "session", server |-> i]>> ELSE <<>>)

\* Variant: the try statement encloses the for loop, so a failure ends it.
ExceptPc_EndsLoop == "done"

\* except Exception in connect_all: the failure is printed and the for loop
\* goes on with the next descriptor.
ExceptPc == "loop"

\* Variant: list_tools wrapped in try/except like the other list calls.
ListToolsSwallowed_Caught == TRUE

\* list_tools raised inside _discover_capabilities: nothing catches it there.
ListToolsSwallowed == FALSE

\* Variant: the optional list calls made without try/except.
OptionalListSwallowed_Uncaught == FALSE

\* try/except around list_resources, list_resource_templates, list_prompts.
OptionalListSwallowed == TRUE

\* The session operations one iteration invokes, in order.
IterationCalls(b) ==
    (IF Succeeded(b, "session") THEN <<"initialize">> ELSE <<>>)
    \o (IF Succeeded(b, "initialize") THEN <<"list_tools">> ELSE <<>>)
    \o (IF Succeeded(b, "list_tools") \/ (b.fail = "list_tools" /\ ListToolsSwallowed)
        THEN <<"list_resources">>
             \o (IF b.resources.ok \/ OptionalListSwallowed
                 THEN <<"list_resource_templates">>
                      \o (IF b.templates.ok \/ OptionalListSwallowed
                          THEN <<"list_prompts">> ELSE <<>>)
                 ELSE <<>>)
        ELSE <<>>)

\* The iteration ended in connect_all's except clause.
Raised(b) ==
    \/ b.fail \notin {"none", "list_tools"}
    \/ b.fail = "list_tools" /\ ~ListToolsSwallowed
    \/ /\ b.fail = "none"
       /\ ~OptionalListSwallowed
       /\ ~(b.resources.ok /\ b.templates.ok /\ b.prompts.ok)

\* The for loop body of connect_all, for descriptor idx, its missing-url branches.
ConnectMissingUrl ==
    /\ pc = "loop"
    /\ idx <= Len(server_configs)
    /\ MissingUrl(server_configs[idx])
    /\ idx' = idx + 1
    /\ behaviour' = Append(behaviour, [fail |-> "no_url", tools |-> <<>>,
                                       resources |-> Failing,
                                       templates |-> Failing,
                                       prompts |-> Failing])
    /\ log' = Append(log, [reported |-> TRUE, calls |-> <<>>])
    /\ UNCHANGED <<server_configs, messages, sessions, registries, stack, server_contexts,
                   pc, acquired, released, result>>

\* Variant: a failed connection drops the session registered under its name.
SessionsAfter_Rollback(server_name, i, b) ==
    IF Raised(b) THEN SelectSeq(sessions, LAMBDA e : e[1] # server_name)
    ELSE DictSet(sessions, server_name, i)

\* self.sessions[server_name] = session, right after initialize() and before
\* _discover_capabilities; no statement removes an entry.
SessionsAfter(server_name, i, b) ==
    IF Succeeded(b, "initialize") THEN DictSet(sessions, server_name, i)
    ELSE sessions

\* The for loop body of connect_all, for descriptor idx, from transport creation on.
ConnectIteration(b) ==
    /\ pc = "loop"
    /\ idx <= Len(server_configs)
    /\ ~MissingUrl(server_configs[idx])
    /\ b.fail = "http_client" => server_configs[idx].transport = "http"
    /\ LET server == server_configs[idx]
           server_name == server.name
           tools_ok == b.fail = "none" \/ (b.fail = "list_tools" /\ ListToolsSwallowed)
           res_ok == tools_ok /\ b.resources.ok
           tmpl_ok == tools_ok /\ b.templates.ok
                          /\ (b.resources.ok \/ OptionalListSwallowed)
           prompts_ok == tools_ok /\ b.prompts.ok
                          /\ (b.resources.ok \/ OptionalListSwallowed)
                          /\ (b.templates.ok \/ OptionalListSwallowed)
       IN  /\ stack' = stack \o Entered(server, idx, b)
           /\ acquired' = acquired \o Entered(server, idx, b)
           /\ sessions' = SessionsAfter(server_name, idx, b)
           /\ tool_to_server' =
                IF tools_ok THEN DictSetAll(tool_to_server, b.tools, server_name)
                ELSE tool_to_server
           /\ available_tools' =
                IF tools_ok
                THEN available_tools
                        \o [k \in DOMAIN b.tools |-> ToolEntry(b.tools[k], idx)]
                ELSE available_tools
           /\ resource_to_server' =
                IF res_ok
                THEN DictSetAll(resource_to_server, b.resources.items, server_name)
                ELSE resource_to_server
           /\ available_resources' =
                IF res_ok
                THEN available_resources
                        \o [k \in DOMAIN b.resources.items |->
                                ResourceEntry(b.resources.items[k])]
                ELSE available_resources
           /\ resource_templates_to_server' =
                IF tmpl_ok
                THEN DictSetAll(resource_templates_to_server, b.templates.items,
                                server_name)
                ELSE resource_templates_to_server
           /\ available_resource_templates' =
                IF tmpl_ok
                THEN available_resource_templates
                        \o [k \in DOMAIN b.templates.items |->
                                TemplateEntry(b.templates.items[k])]
                ELSE available_resource_templates
           /\ prompt_to_server' =
                IF prompts_ok
                THEN DictSetAll(prompt_to_server, b.prompts.items, server_name)
                ELSE prompt_to_server
           /\ available_prompts' =
                IF prompts_ok
                THEN available_prompts
                        \o [k \in DOMAIN b.prompts.items |->
                                PromptEntry(b.prompts.items[k])]
                ELSE available_prompts
           /\ behaviour' = Append(behaviour, b)
           /\ log' = Append(log, [reported |-> Raised(b), calls |-> IterationCalls(b)])
           /\ idx' = idx + 1
           /\ pc' = IF Raised(b) THEN ExceptPc ELSE "loop"
    /\ UNCHANGED <<server_configs, messages, server_contexts, released, result>>

\* connect_all returns: no server configured, or the loop is exhausted.
ConnectAllReturn ==
    /\ pc = "loop"
    /\ idx > Len(server_configs)
    /\ pc' = "done"
    /\ UNCHANGED <<server_configs, messages, sessions, registries, stack, server_contexts,
                   idx, behaviour, log, acquired, released, result>>

\* shutdown(): the owner of the exit stack closes it once connect_all has
\* returned. One step releases the context acquired last among those still
\* held.
ShutdownStep ==
    /\ pc \in {"done", "closing"}
    /\ stack # <<>>
    /\ released' = Append(released, [ctx |-> stack[Len(stack)],
                                     failed |-> FALSE, logged |-> FALSE])
    /\ stack' = SubSeq(stack, 1, Len(stack) - 1)
    /\ pc' = "closing"
    /\ UNCHANGED <<server_configs, messages, sessions, registries, server_contexts, idx,
                   behaviour, log, acquired, result>>

\* shutdown() returns: nothing is held any more.
ShutdownDone ==
    /\ pc \in {"done", "closing"}
    /\ stack = <<>>
    /\ pc' = "closed"
    /\ UNCHANGED <<server_configs, messages, sessions, registries, stack, server_contexts,
                   idx, behaviour, log, acquired, released, result>>

\* The record of a query-layer operation: the operation and its argument, how
\* it ended, the server name it resolved, the session it called (0: none),
\* the schema it returned (0: none) and the text it produced.
Outcome(op, arg, outcome, server, session, value, text) ==
    [op |-> op, arg |-> arg, outcome |-> outcome, server |-> server,
     session |-> session, value |-> value, text |-> text]

NoResult == Outcome("none", "", "", None, 0, 0, <<>>)

\* Variant: an unresolved name falls back to the first registered session.
CallToolResult_Fallback(tool_name) ==
    LET server_name == DictGet(tool_to_server, tool_name)
    IN  IF server_name = None /\ sessions = <<>>
        THEN Outcome("call_tool", tool_name, "ValueError", None, 0, 0, <<>>)
        ELSE Outcome("call_tool", tool_name, "called", server_name,
                     IF server_name = None THEN sessions[1][2]
                     ELSE DictGet(sessions, server_name), 0, <<>>)

\* MCPClientManager.call_tool(tool_name, arguments)
CallToolResult(tool_name) ==
    LET server_name == DictGet(tool_to_server, tool_name)
    IN  IF ~Truthy(server_name)
        THEN Outcome("call_tool", tool_name, "ValueError", None, 0, 0, <<>>)
        ELSE IF ~DictHas(sessions, server_name)
        THEN Outcome("call_tool", tool_name, "KeyError", server_name, 0, 0, <<>>)
        ELSE Outcome("call_tool", tool_name, "called", server_name,
                     DictGet(sessions, server_name), 0, <<>>)

CallTool(tool_name) ==
    /\ pc = "done"
    /\ result' = CallToolResult(tool_name)
    /\ UNCHANGED <<server_configs, messages, sessions, registries, stack, server_contexts,
                   pc, idx, behaviour, log, acquired, released>>

\* MCPClientManager.get_tool_schema(tool_name): the first entry of that name.
GetToolSchemaResult(tool_name) ==
    LET hits == {k \in DOMAIN available_tools :
                    available_tools[k].function.name = tool_name}
    IN  IF hits = {}
        THEN Outcome("get_tool_schema", tool_name, None, None, 0, 0, <<>>)
        ELSE Outcome("get_tool_schema", tool_name, "schema", None, 0,
                     available_tools[CHOOSE k \in hits :
                         \A j \in hits : k <= j].function.parameters, <<>>)

GetToolSchema(tool_name) ==
    /\ pc = "done"
    /\ result' = GetToolSchemaResult(tool_name)
    /\ UNCHANGED <<server_configs, messages, sessions, registries, stack, server_contexts,
                   pc, idx, behaviour, log, acquired, released>>

\* MCPClientManager.__init__: empty registries, the configuration loaded
\* (descriptors of D).
InitOver(D) ==
    /\ server_configs \in SeqUpTo(D, MaxServers)
    /\ sessions = <<>>
    /\ tool_to_server = <<>>
    /\ resource_to_server = <<>>
    /\ resource_templates_to_server = <<>>
    /\ prompt_to_server = <<>>
    /\ available_tools = <<>>
    /\ available_resources = <<>>
    /\ available_resource_templates = <<>>
    /\ available_prompts = <<>>
    /\ stack = <<>>
    /\ server_contexts = <<>>
    /\ pc = "loop"
    /\ idx = 1
    /\ behaviour = <<>>
    /\ log = <<>>
    /\ acquired = <<>>
    /\ released = <<>>
    /\ result = NoResult
    /\ messages = <<>>

\* connect_all over every transport and every failing step, then shutdown;
\* each server lists up to MaxList tools X and one resource, template and
\* prompt.
Behaviours ==
    BehavioursOver(AllSteps, {"X"}, Returning(ResourceUris),
                   Returning(TemplateUris), Returning(PromptNames))

Init == InitOver(Descriptors)

Next ==
    \/ ConnectMissingUrl
    \/ \E b \in Behaviours : ConnectIteration(b)
    \/ ConnectAllReturn
    \/ ShutdownStep
    \/ ShutdownDone

Spec == Init /\ [][Next]_vars

\* The descriptors of stdio servers.
StdioDescriptors == {d \in Descriptors : d.transport = "stdio"}

\* Discovery: each optional list call of a server raises or returns an item.
DiscoverBehaviours ==
    BehavioursOver({"list_tools", "none"}, {"X"}, ListingsUpTo(ResourceUris, 1),
                   ListingsUpTo(TemplateUris, 1), ListingsUpTo(PromptNames, 1))

DiscoverInit == InitOver(StdioDescriptors)

DiscoverNext ==
    \/ \E b \in DiscoverBehaviours : ConnectIteration(b)
    \/ ConnectAllReturn

DiscoverSpec == DiscoverInit /\ [][DiscoverNext]_vars

\* Tool routing: the servers list tools of both names; call_tool and
\* get_tool_schema are used once connect_all has returned.
ToolBehaviours ==
    BehavioursOver({"list_tools", "none"}, ToolNames, {Failing}, {Failing},
                   {Failing})

ToolInit == InitOver(StdioDescriptors)

ToolNext ==
    \/ \E b \in ToolBehaviours : ConnectIteration(b)
    \/ ConnectAllReturn
    \/ \E tool_name \in ToolNames : CallTool(tool_name)
    \/ \E tool_name \in ToolNames : GetToolSchema(tool_name)

ToolSpec == ToolInit /\ [][ToolNext]_vars

\* Routing of what was offered: server_name = server["name"] is whatever
\* string servers.json holds, here research or the empty string.
RouteDescriptors ==
    {[name |-> n, transport |-> "stdio", url |-> FALSE] : n \in {"research", ""}}

RouteInit == InitOver(RouteDescriptors)

RouteNext ==
    \/ \E b \in DiscoverBehaviours : ConnectIteration(b)
    \/ ConnectAllReturn
    \/ \E k \in DOMAIN available_tools : CallTool(available_tools[k].function.name)

RouteSpec == RouteInit /\ [][RouteNext]_vars

-----------------------------------------------------------------------------
(* MCP_ChatBot: strings the code takes apart                               *)

\* "papers://", the prefix of every uri the chat loop builds and the test of
\* get_resource's fallback.
PapersScheme == <<"p", "a", "p", "e", "r", "s", ":", "/", "/">>

Uri_PapersMlList == PapersScheme \o <<"m", "l", "/", "l", "i", "s", "t">>
Uri_PapersFolders == PapersScheme \o <<"f", "o", "l", "d", "e", "r", "s">>
Uri_NotesA == <<"n", "o", "t", "e", "s", ":", "/", "/", "a">>

\* "papers://{topic}/list", "{uri}" and
\* "papers://folders" (a template without a parameter).
Tmpl_PapersTopicList == PapersScheme \o <<"{", "t", "o", "p", "i", "c", "}", "/", "l", "i", "s", "t">>
Tmpl_Any == <<"{", "u", "r", "i", "}">>
Tmpl_PapersFolders == Uri_PapersFolders

\* str.startswith
StartsWith(s, prefix) ==
    /\ Len(prefix) <= Len(s)
    /\ SubSeq(s, 1, Len(prefix)) = prefix

\* template_uri.split("{")[0]: the characters before the first "{".
RECURSIVE BeforeBrace(_)
BeforeBrace(t) ==
    IF t = <<>> \/ Head(t) = "{" THEN <<>>
    ELSE <<Head(t)>> \o BeforeBrace(Tail(t))

\* Variant: the template is compared whole, without the split at "{".
TemplatePrefix_Whole(template_uri) == template_uri

\* prefix = template_uri.split("{")[0]
TemplatePrefix(template_uri) == BeforeBrace(template_uri)

-----------------------------------------------------------------------------
(* MCP_ChatBot.connect_to_servers_and_run: the connect phase                *)

\* The chatbot reads name, command, args and env only: stdio descriptors.
BotDescriptors == {d \in Descriptors : d.transport = "stdio"}

\* The steps of a connection to the chatbot, which enters no http client.
BotSteps == AllSteps \ {"http_client"}

\* The contexts entered during one iteration: client_ctx, then session_ctx.
BotEntered(i, b) ==
    (IF Succeeded(b, "transport")
        THEN <<[kind |-> "transport", server |-> i]>> ELSE <<>>)
    \o (IF Succeeded(b, "session")
        THEN <<[kind |-> "session", server |-> i]>> ELSE <<>>)

\* Variant: the two contexts of a server are kept only once both are entered.
BotAppended_Paired(i, b) ==
    IF Succeeded(b, "session") THEN BotEntered(i, b) ELSE <<>>

\* server_contexts.append(client_ctx), server_contexts.append(session_ctx):
\* each context is appended as soon as its __aenter__ has returned.
BotAppended(i, b) == BotEntered(i, b)

\* The session operations one iteration invokes, in order; each of the three
\* optional list calls has its own try/except.
BotIterationCalls(b) ==
    (IF Succeeded(b, "session") THEN <<"initialize">> ELSE <<>>)
    \o (IF Succeeded(b, "initialize") THEN <<"list_tools">> ELSE <<>>)
    \o (IF b.fail = "none"
        THEN <<"list_resources", "list_resource_templates", "list_prompts">>
        ELSE <<>>)

\* if not self.server_config: return
BotNoServers ==
    /\ pc = "connect"
    /\ server_configs = <<>>
    /\ pc' = "returned"
    /\ UNCHANGED <<server_configs, messages, sessions, registries, stack, server_contexts,
                   idx, behaviour, log, acquired, released, result>>

\* The for loop body for descriptor idx. Any exception leaves the try
\* statement, which encloses the loop and the chat loop: the finally clause
\* runs with the exception in flight. The registries are written after all
\* four list calls.
BotConnectIteration(b) ==
    /\ pc = "connect"
    /\ idx <= Len(server_configs)
    /\ LET server_name == server_configs[idx].name
           ok == b.fail = "none"
       IN  /\ server_contexts' = server_contexts \o BotAppended(idx, b)
           /\ acquired' = acquired \o BotEntered(idx, b)
           /\ sessions' = IF Succeeded(b, "initialize")
                            THEN DictSet(sessions, server_name, idx)
                            ELSE sessions
           /\ tool_to_server' =
                IF ok THEN DictSetAll(tool_to_server, b.tools, server_name)
                ELSE tool_to_server
           /\ available_tools' =
                IF ok
                THEN available_tools
                        \o [k \in DOMAIN b.tools |-> ToolEntry(b.tools[k], idx)]
                ELSE available_tools
           /\ resource_to_server' =
                IF ok /\ b.resources.ok
                THEN DictSetAll(resource_to_server, b.resources.items, server_name)
                ELSE resource_to_server
           /\ available_resources' =
                IF ok /\ b.resources.ok
                THEN available_resources
                        \o [k \in DOMAIN b.resources.items |->
                                ResourceEntry(b.resources.items[k])]
                ELSE available_resources
           /\ resource_templates_to_server' =
                IF ok /\ b.templates.ok
                THEN DictSetAll(resource_templates_to_server, b.templates.items,
                                server_name)
                ELSE resource_templates_to_server
           /\ available_resource_templates' =
                IF ok /\ b.templates.ok
                THEN available_resource_templates
                        \o [k \in DOMAIN b.templates.items |->
                                TemplateEntry(b.templates.items[k])]
                ELSE available_resource_templates
           /\ prompt_to_server' =
                IF ok /\ b.prompts.ok
                THEN DictSetAll(prompt_to_server, b.prompts.items, server_name)
                ELSE prompt_to_server
           /\ available_prompts' =
                IF ok /\ b.prompts.ok
                THEN available_prompts
                        \o [k \in DOMAIN b.prompts.items |->
                                PromptEntry(b.prompts.items[k])]
                ELSE available_prompts
           /\ behaviour' = Append(behaviour, b)
           /\ log' = Append(log, [reported |-> FALSE, calls |-> BotIterationCalls(b)])
           /\ idx' = idx + 1
           /\ pc' = IF ok THEN "connect" ELSE "unwinding"
    /\ UNCHANGED <<server_configs, messages, stack, released, result>>

\* The loop is exhausted: the totals are printed and chat_loop starts.
BotConnectDone ==
    /\ pc = "connect"
    /\ server_configs # <<>>
    /\ idx > Len(server_configs)
    /\ pc' = "chat"
    /\ UNCHANGED <<server_configs, messages, sessions, registries, stack, server_contexts,
                   idx, behaviour, log, acquired, released, result>>

ConnectPhase(B) ==
    \/ BotNoServers
    \/ \E b \in B : BotConnectIteration(b)
    \/ BotConnectDone

-----------------------------------------------------------------------------
(* MCP_ChatBot.get_resource                                                 *)

\* Variant: the scan goes on after a hit, so the last matching template wins.
FirstMatch_Last(matches) == CHOOSE k \in matches : \A j \in matches : k >= j

\* for template_uri, srv in ...items(): if ...: server_name = srv; break
FirstMatch(matches) == CHOOSE k \in matches : \A j \in matches : k <= j

\* The server name get_resource settles on: the exact entry when it is
\* truthy, else the owner of the first template whose prefix starts the uri,
\* else what the exact lookup gave.
ResolvedServer(resource_uri) ==
    LET exact == DictGet(resource_to_server, resource_uri)
        matches == {k \in DOMAIN resource_templates_to_server :
                      StartsWith(resource_uri,
                          TemplatePrefix(resource_templates_to_server[k][1]))}
    IN  IF Truthy(exact) THEN exact
        ELSE IF matches = {} THEN exact
        ELSE resource_templates_to_server[FirstMatch(matches)][2]

\* Variant: without the fallback to the session named research.
ResolvedSession_NoFallback(resource_uri, server_name) ==
    IF DictHas(sessions, server_name) THEN DictGet(sessions, server_name) ELSE 0

\* session = self.sessions.get(server_name), then the fallback for papers
\* uris to the session registered as "research" (0: no session).
ResolvedSession(resource_uri, server_name) ==
    IF DictHas(sessions, server_name) THEN DictGet(sessions, server_name)
    ELSE IF StartsWith(resource_uri, PapersScheme) /\ DictHas(sessions, "research")
    THEN DictGet(sessions, "research")
    ELSE 0

\* read_ok: whether session.read_resource returned (its exception is caught).
GetResourceResult(resource_uri, read_ok) ==
    LET server_name == ResolvedServer(resource_uri)
        session == ResolvedSession(resource_uri, server_name)
    IN  IF session = 0
        THEN Outcome("get_resource", resource_uri, "not_found", server_name,
                     0, 0, <<>>)
        ELSE Outcome("get_resource", resource_uri,
                     IF read_ok THEN "read" ELSE "read_error", server_name,
                     session, 0, <<>>)

\* Variant: the server a uri resolved to is remembered in resource_to_server.
GetResource_Caching(resource_uri, read_ok) ==
    /\ pc = "chat"
    /\ result = NoResult
    /\ result' = GetResourceResult(resource_uri, read_ok)
    /\ resource_to_server' =
          IF Truthy(ResolvedServer(resource_uri))
          THEN DictSet(resource_to_server, resource_uri, ResolvedServer(resource_uri))
          ELSE resource_to_server
    /\ UNCHANGED <<server_configs, messages, sessions, tool_to_server,
                   resource_templates_to_server, prompt_to_server,
                   available_tools, available_resources,
                   available_resource_templates, available_prompts, stack,
                   server_contexts, pc, idx, behaviour, log, acquired, released>>

GetResource(resource_uri, read_ok) ==
    /\ pc = "chat"
    /\ result = NoResult
    /\ result' = GetResourceResult(resource_uri, read_ok)
    /\ UNCHANGED <<server_configs, messages, sessions, registries, stack, server_contexts,
                   pc, idx, behaviour, log, acquired, released>>

-----------------------------------------------------------------------------
(* MCP_ChatBot.execute_prompt                                               *)

\* Texts of prompt contents: "", "a", "b", "hello".
Texts == {<<>>, <<"a">>, <<"b">>, <<"h", "e", "l", "l", "o">>}

\* Longest list of content items in one prompt message.
MaxItems == 2

\* An item of a content list: it has a text attribute, or only a str() form.
ContentItems ==
    {[has_text |-> TRUE, text |-> t] : t \in Texts}
        \cup {[has_text |-> FALSE, text |-> <<"o">>]}

\* messages[0].content: a str, an object with a text attribute, a list of
\* items, or an object that has no text and cannot be iterated.
Contents ==
    {[shape |-> sh, text |-> t, items |-> <<>>] :
        sh \in {"str", "obj"}, t \in Texts}
    \cup {[shape |-> "list", text |-> <<>>, items |-> its] :
            its \in SeqUpTo(ContentItems, MaxItems)}
    \cup {[shape |-> "other", text |-> <<>>, items |-> <<>>]}

\* What session.get_prompt does: it raises, returns no message, or returns
\* a message with a content.
Replies ==
    {[kind |-> k, content |-> [shape |-> "other", text |-> <<>>, items |-> <<>>]] :
        k \in {"raise", "empty"}}
    \cup {[kind |-> "content", content |-> c] : c \in Contents}

\* Variant: the items joined without a separator.
Separator_None == <<>>

\* " ".join
Separator == <<" ">>

\* item.text if hasattr(item, "text") else str(item)
ItemText(item) == item.text

RECURSIVE Join(_)
Join(items) ==
    IF items = <<>> THEN <<>>
    ELSE IF Len(items) = 1 THEN ItemText(items[1])
    ELSE ItemText(Head(items)) \o Separator \o Join(Tail(items))

\* Extract text from content (lines 311-320).
NormalizeContent(prompt_content) ==
    IF prompt_content.shape = "str" THEN prompt_content.text
    ELSE IF prompt_content.shape = "obj" THEN prompt_content.text
    ELSE Join(prompt_content.items)

\* Variant: an unresolved name is served by the first registered session.
PromptSession_AnySession(server_name) ==
    IF DictHas(sessions, server_name) THEN DictGet(sessions, server_name)
    ELSE IF sessions # <<>> THEN sessions[1][2]
    ELSE 0

\* session = self.sessions.get(server_name) (0: None)
PromptSession(server_name) ==
    IF DictHas(sessions, server_name) THEN DictGet(sessions, server_name) ELSE 0

ExecutePromptResult(prompt_name, reply, use_forced_tools) ==
    LET server_name == DictGet(prompt_to_server, prompt_name)
        arg == [name |-> prompt_name, reply |-> reply]
        session == PromptSession(server_name)
    IN  IF session = 0
        THEN Outcome("execute_prompt", arg, "not_found", server_name, 0, 0, <<>>)
        ELSE IF reply.kind = "raise" \/ (reply.kind = "content"
                                         /\ reply.content.shape = "other")
        THEN Outcome("execute_prompt", arg, "error", server_name, session, 0, <<>>)
        ELSE IF reply.kind = "empty"
        THEN Outcome("execute_prompt", arg, "no_messages", server_name, session,
                     0, <<>>)
        ELSE Outcome("execute_prompt", arg,
                     IF use_forced_tools THEN "process_query_with_forced_tools"
                     ELSE "process_query",
                     server_name, session, 0, NormalizeContent(reply.content))

ExecutePrompt(prompt_name, reply, use_forced_tools) ==
    /\ pc = "chat"
    /\ result = NoResult
    /\ result' = ExecutePromptResult(prompt_name, reply, use_forced_tools)
    /\ UNCHANGED <<server_configs, messages, sessions, registries, stack, server_contexts,
                   pc, idx, behaviour, log, acquired, released>>

-----------------------------------------------------------------------------
(* MCP_ChatBot.process_query and list_prompts                               *)

\* Most tool invocations the model asks for while one query is processed.
MaxCalls == 2

\* Tool names the model may ask for: X, and Z that no server lists.
CalledNames == {"X", "Z"}

\* An entry of messages: the user's query, the assistant's text, the
\* assistant's message with its tool invocations, a tool result.
Message(role, tool_calls, tool_call_id, session) ==
    [role |-> role, tool_calls |-> tool_calls, tool_call_id |-> tool_call_id,
     session |-> session]

\* The tool invocations in the messages so far.
RECURSIVE CallsIn(_)
CallsIn(msgs) ==
    IF msgs = <<>> THEN 0 ELSE Len(Head(msgs).tool_calls) + CallsIn(Tail(msgs))

\* The invocation resolves: its tool has a server and the server a session
\* (lines 78-87).
Resolves(tool_name) ==
    /\ Truthy(DictGet(tool_to_server, tool_name))
    /\ DictHas(sessions, DictGet(tool_to_server, tool_name))

\* The for loop over message.tool_calls: an invocation that does not
\* resolve is skipped by continue, the others are sent to their session and
\* answered by a tool message carrying the call id.
RECURSIVE ToolResults(_)
ToolResults(tool_calls) ==
    IF tool_calls = <<>> THEN <<>>
    ELSE LET tool_call == Head(tool_calls)
         IN  (IF Resolves(tool_call.name)
              THEN <<Message("tool", <<>>, tool_call.id,
                             DictGet(sessions,
                                     DictGet(tool_to_server, tool_call.name)))>>
              ELSE <<>>)
             \o ToolResults(Tail(tool_calls))

\* process_query(query) starts: messages = [{"role": "user", ...}]
ProcessQueryStart ==
    /\ pc = "chat"
    /\ result = NoResult
    /\ messages' = <<Message("user", <<>>, 0, 0)>>
    /\ pc' = "query"
    /\ UNCHANGED <<server_configs, sessions, registries, stack, server_contexts,
                   idx, behaviour, log, acquired, released, result>>

\* One pass of the while loop: a chat-completion request and the handling
\* of its answer. content: the answer has text; names: the tools it asks
\* for (the k-th invocation of the query has call id k); raises: a
\* session.call_tool raises, which ends process_query with the exception
\* that chat_loop prints.
ProcessQueryRound(content, names, raises) ==
    /\ pc = "query"
    /\ CallsIn(messages) + Len(names) <= MaxCalls
    /\ raises => \E k \in DOMAIN names : Resolves(names[k])
    /\ LET tool_calls == [k \in DOMAIN names |->
                            [id |-> CallsIn(messages) + k, name |-> names[k]]]
           said == IF content THEN <<Message("assistant", <<>>, 0, 0)>> ELSE <<>>
       IN  IF names = <<>>
           THEN /\ messages' = <<>>
                /\ pc' = "chat"
                /\ result' = Outcome("process_query", "", "answered", None, 0, 0,
                                     <<>>)
           ELSE IF raises
           THEN /\ messages' = <<>>
                /\ pc' = "chat"
                /\ result' = Outcome("process_query", "", "error", None, 0, 0,
                                     <<>>)
           ELSE /\ messages' = messages \o said
                                  \o <<Message("assistant", tool_calls, 0, 0)>>
                                  \o ToolResults(tool_calls)
                /\ pc' = "query"
                /\ UNCHANGED result
    /\ UNCHANGED <<server_configs, sessions, registries, stack, server_contexts,
                   idx, behaviour, log, acquired, released>>

\* MCP_ChatBot.list_prompts(): prints the entries of available_prompts
\* (the names printed are the text of the outcome).
ListPromptsResult ==
    Outcome("list_prompts", "",
            IF available_prompts = <<>> THEN "no_prompts" ELSE "listed",
            None, 0, 0,
            [k \in DOMAIN available_prompts |-> available_prompts[k].name])

ListPrompts ==
    /\ pc = "chat"
    /\ result = NoResult
    /\ result' = ListPromptsResult
    /\ UNCHANGED <<server_configs, messages, sessions, registries, stack,
                   server_contexts, pc, idx, behaviour, log, acquired, released>>

-----------------------------------------------------------------------------
(* MCP_ChatBot.connect_to_servers_and_run: leaving the chat loop, teardown  *)

\* The operation is over: the while loop of chat_loop asks for the next query.
NextQuery ==
    /\ pc = "chat"
    /\ result # NoResult
    /\ result' = NoResult
    /\ UNCHANGED <<server_configs, messages, sessions, registries, stack, server_contexts,
                   pc, idx, behaviour, log, acquired, released>>

\* The user types quit: chat_loop returns and the finally clause runs.
Quit ==
    /\ pc = "chat"
    /\ pc' = "teardown"
    /\ result' = NoResult
    /\ UNCHANGED <<server_configs, messages, sessions, registries, stack, server_contexts,
                   idx, behaviour, log, acquired, released>>

\* chat_loop raises outside the try statement of its while loop (input() of
\* the mode prompt meets the end of the input): the exception leaves
\* chat_loop and the finally clause runs with it in flight.
ChatLoopRaises ==
    /\ pc = "chat"
    /\ result = NoResult
    /\ pc' = "unwinding"
    /\ result' = Outcome("chat_loop", "", "raised", None, 0, 0, <<>>)
    /\ UNCHANGED <<server_configs, messages, sessions, registries, stack, server_contexts,
                   idx, behaviour, log, acquired, released>>

\* Variant: the contexts are walked in the order of the list.
TeardownOrder_Forward(contexts) == contexts

\* reversed(server_contexts)
TeardownOrder(contexts) ==
    [k \in DOMAIN contexts |-> contexts[Len(contexts) + 1 - k]]

\* Variant: __aexit__ called without try/except, its exception ends the loop.
AfterReleasePc_Propagates(failed) == IF failed THEN "raised" ELSE pc

\* try: await ctx.__aexit__(None, None, None) / except Exception: print
AfterReleasePc(failed) == pc

\* One iteration of the finally clause's loop; failed: __aexit__ raised.
TeardownStep(failed) ==
    /\ pc \in {"teardown", "unwinding"}
    /\ Len(released) < Len(server_contexts)
    /\ released' = Append(released,
                          [ctx |-> TeardownOrder(server_contexts)[Len(released) + 1],
                           failed |-> failed, logged |-> failed])
    /\ pc' = AfterReleasePc(failed)
    /\ UNCHANGED <<server_configs, messages, sessions, registries, stack, server_contexts,
                   idx, behaviour, log, acquired, result>>

\* The finally clause ends: the coroutine returns, or the exception that
\* started the unwinding goes on to the caller.
TeardownDone ==
    /\ pc \in {"teardown", "unwinding"}
    /\ Len(released) = Len(server_contexts)
    /\ pc' = IF pc = "teardown" THEN "returned" ELSE "raised"
    /\ UNCHANGED <<server_configs, messages, sessions, registries, stack, server_contexts,
                   idx, behaviour, log, acquired, released, result>>

-----------------------------------------------------------------------------
(* MCP_ChatBot: specifications                                              *)

\* MCP_ChatBot.__init__ and the start of connect_to_servers_and_run, with
\* the configuration drawn from the descriptors of D.
BotInitOver(D) ==
    /\ server_configs \in SeqUpTo(D, MaxServers)
    /\ sessions = <<>>
    /\ tool_to_server = <<>>
    /\ resource_to_server = <<>>
    /\ resource_templates_to_server = <<>>
    /\ prompt_to_server = <<>>
    /\ available_tools = <<>>
    /\ available_resources = <<>>
    /\ available_resource_templates = <<>>
    /\ available_prompts = <<>>
    /\ stack = <<>>
    /\ server_contexts = <<>>
    /\ pc = "connect"
    /\ idx = 1
    /\ behaviour = <<>>
    /\ log = <<>>
    /\ acquired = <<>>
    /\ released = <<>>
    /\ result = NoResult
    /\ messages = <<>>

BotInit == BotInitOver(BotDescriptors)

\* The whole run of the chatbot; each server lists up to MaxList tools X
\* and one resource, template and prompt.
BotBehaviours ==
    BehavioursOver(BotSteps, {"X"}, Returning({Uri_PapersFolders}),
                   Returning({Tmpl_PapersTopicList}), Returning({"p"}))

BotNext ==
    \/ ConnectPhase(BotBehaviours)
    \/ \E resource_uri \in {Uri_PapersMlList, Uri_NotesA}, read_ok \in BOOLEAN :
            GetResource(resource_uri, read_ok)
    \/ \E prompt_name \in {"p", "q"},
          reply \in {r \in Replies : r.content.shape \in {"str", "other"}
                                     /\ r.content.text \in {<<>>, <<"a">>}},
          use_forced_tools \in BOOLEAN :
            ExecutePrompt(prompt_name, reply, use_forced_tools)
    \/ ProcessQueryStart
    \/ \E content \in BOOLEAN, names \in SeqUpTo(CalledNames, MaxCalls),
          raises \in BOOLEAN :
            ProcessQueryRound(content, names, raises)
    \/ ListPrompts
    \/ NextQuery
    \/ Quit
    \/ ChatLoopRaises
    \/ \E failed \in BOOLEAN : TeardownStep(failed)
    \/ TeardownDone

BotSpec == BotInit /\ [][BotNext]_vars

\* Resource resolution, with servers that list resources and templates.
ResolveBehaviours ==
    BehavioursOver(BotSteps, {}, ListingsUpTo({Uri_PapersFolders}, 1),
                   ListingsUpTo({Tmpl_PapersTopicList, Tmpl_Any,
                                 Tmpl_PapersFolders}, MaxTemplates),
                   {Failing})

ResolveUris == {Uri_PapersMlList, Uri_PapersFolders, Uri_NotesA}

ResolveNext ==
    \/ ConnectPhase(ResolveBehaviours)
    \/ \E resource_uri \in ResolveUris : GetResource(resource_uri, TRUE)
    \/ NextQuery

\* The servers of the resolver: one named research, the name the fallback
\* looks up, and one whose "name" in servers.json is the empty string.
ResolveDescriptors ==
    {[name |-> n, transport |-> "stdio", url |-> FALSE] : n \in {"research", ""}}

ResolveInit == BotInitOver(ResolveDescriptors)

ResolveSpec == ResolveInit /\ [][ResolveNext]_vars

\* The template scan: servers that list no resource and up to MaxScan
\* different templates, several of which match the same uri.
ScanBehaviours ==
    BehavioursOver(BotSteps, {}, {Failing},
                   DistinctListingsUpTo({Tmpl_PapersTopicList, Tmpl_Any,
                                         Tmpl_PapersFolders}, MaxScan),
                   {Failing})

ScanUris == {Uri_PapersMlList, Uri_NotesA}

ScanNext ==
    \/ ConnectPhase(ScanBehaviours)
    \/ \E resource_uri \in ScanUris : GetResource(resource_uri, TRUE)
    \/ NextQuery

ScanDescriptors ==
    {[name |-> n, transport |-> "stdio", url |-> FALSE] :
        n \in {"research", "notes"}}

ScanInit == BotInitOver(ScanDescriptors)

ScanSpec == ScanInit /\ [][ScanNext]_vars

\* Prompt execution, with servers that list prompts.
PromptBehaviours ==
    BehavioursOver(BotSteps, {}, {Failing}, {Failing}, ListingsUpTo({"p"}, 1))

PromptNext ==
    \/ ConnectPhase(PromptBehaviours)
    \/ \E prompt_name \in {"p", "q"}, reply \in Replies,
          use_forced_tools \in BOOLEAN :
            ExecutePrompt(prompt_name, reply, use_forced_tools)
    \/ NextQuery

PromptSpec == BotInit /\ [][PromptNext]_vars

-----------------------------------------------------------------------------
(* Properties of MCPClientManager (specifications Spec, DiscoverSpec,       *)
(* ToolSpec)                                                               *)

Range(f) == {f[k] : k \in DOMAIN f}

\* Number of positions of sequence f that satisfy the test set T.
Count(f, T) == Cardinality({k \in DOMAIN f : f[k] \in T})

\* The descriptors processed so far whose connection and discovery succeeded.
Connected == {j \in DOMAIN behaviour : behaviour[j].fail = "none"}

\* All items of a successful listing are in the routing map and the list.
Present(listing, map, list, Entry(_)) ==
    listing.ok =>
        \A k \in DOMAIN listing.items :
            /\ DictHas(map, listing.items[k])
            /\ Entry(listing.items[k]) \in Range(list)

\* C1: in connect_all the failure of one server never stops the loop or
\* harms the others: when connect_all has returned every descriptor has
\* been processed, and every server whose own steps succeeded has a session
\* registered under its name (its own, or that of a later descriptor of the
\* same name) and its tools, resources, templates and prompts in the
\* registries.
C1_PartialFailureIsolation ==
    /\ pc = "done" => Len(behaviour) = Len(server_configs)
    /\ \A j \in Connected :
        LET name == server_configs[j].name
            b == behaviour[j]
        IN  /\ DictHas(sessions, name)
            /\ DictGet(sessions, name) >= j
            /\ server_configs[DictGet(sessions, name)].name = name
            /\ \A k \in DOMAIN b.tools :
                /\ DictHas(tool_to_server, b.tools[k])
                /\ ToolEntry(b.tools[k], j) \in Range(available_tools)
            /\ Present(b.resources, resource_to_server, available_resources,
                       ResourceEntry)
            /\ Present(b.templates, resource_templates_to_server,
                       available_resource_templates, TemplateEntry)
            /\ Present(b.prompts, prompt_to_server, available_prompts, PromptEntry)

\* C1 witness: the first server failed before its session was initialized,
\* the second connected and its capabilities are registered.
C1_Witness ==
    /\ pc = "done"
    /\ Len(server_configs) = 2
    /\ behaviour[1].fail \in {"create", "transport", "session", "initialize"}
    /\ behaviour[2].fail = "none"
    /\ behaviour[2].tools # <<>>
    /\ behaviour[2].resources.ok /\ behaviour[2].templates.ok
    /\ behaviour[2].prompts.ok
    /\ DictHas(sessions, server_configs[2].name)

\* The session created for descriptor i is the one registered under its name.
Registered(i) ==
    /\ DictHas(sessions, server_configs[i].name)
    /\ DictGet(sessions, server_configs[i].name) = i

\* C2: when the iteration of a descriptor has finished, exactly one of the
\* two holds: its session is registered under its name, or a failure was
\* reported for it.
C2_SessionXorFailure ==
    idx > 1 => (Registered(idx - 1) # log[idx - 1].reported)

\* The connected servers that expose tool X.
Exposers(X) == {j \in Connected : X \in Range(behaviour[j].tools)}

\* C3: when connected servers expose a tool named X, the routing map holds
\* X once, mapped to the server discovered last, and available_tools holds
\* one entry named X for every time a server listed it.
C3_LastWriterWins ==
    \A X \in ToolNames :
        LET last == CHOOSE j \in Exposers(X) : \A i \in Exposers(X) : i <= j
        IN  Exposers(X) # {} =>
                /\ Count(tool_to_server, {<<X, n>> : n \in ServerNames}) = 1
                /\ DictGet(tool_to_server, X) = server_configs[last].name
                /\ \A j \in DOMAIN behaviour :
                      Count(available_tools, {ToolEntry(X, j)})
                        = IF j \in Exposers(X)
                          THEN Count(behaviour[j].tools, {X}) ELSE 0

\* C3 witness: two servers of different names both expose X, the map names
\* the second, the list holds both entries.
C3_Witness ==
    /\ pc = "done"
    /\ Exposers("X") = {1, 2}
    /\ server_configs[1].name # server_configs[2].name
    /\ DictGet(tool_to_server, "X") = server_configs[2].name
    /\ Count(available_tools, {ToolEntry("X", 1), ToolEntry("X", 2)}) = 2

\* C4: call_tool with a name that is no key of tool_to_server fails with
\* the unknown-tool error, contacts no session, and leaves the sessions and
\* the registries as they were.
C4_UnknownToolNoContact ==
    [][\A tool_name \in ToolNames :
        (CallTool(tool_name) /\ ~DictHas(tool_to_server, tool_name)) =>
            /\ result'.outcome = "ValueError"
            /\ result'.session = 0
            /\ UNCHANGED <<sessions, registries, stack>>]_vars

\* C4 witness: an unknown-tool failure while sessions are registered.
C4_Witness ==
    /\ result.op = "call_tool"
    /\ result.outcome = "ValueError"
    /\ ~DictHas(tool_to_server, result.arg)
    /\ sessions # <<>>

\* The step is the loop iteration of one descriptor.
Iterated == Len(behaviour') = Len(behaviour) + 1

\* C9: a list_tools failure is reported as the server's connection failure,
\* adds nothing of that server to any registry, and the loop goes on with
\* the next descriptor.
C9_ListToolsFailurePromoted ==
    [][(Iterated /\ behaviour'[Len(behaviour')].fail = "list_tools") =>
            /\ log'[Len(log')].reported
            /\ log'[Len(log')].calls = <<"initialize", "list_tools">>
            /\ UNCHANGED registries
            /\ pc' = "loop"
            /\ idx' = idx + 1]_vars

\* C9 witness: list_tools failed for a server that had resources to list,
\* after another server had registered its tools.
C9_Witness ==
    /\ Len(behaviour) = 2
    /\ behaviour[1].fail = "none" /\ behaviour[1].tools # <<>>
    /\ behaviour[2].fail = "list_tools" /\ behaviour[2].resources.ok
    /\ log[2].reported
    /\ Len(available_tools) = 1
    /\ Len(available_resources) = 1
    /\ DictGet(resource_to_server, "r") = server_configs[1].name

\* The registrations of one optional kind made by the step for server_name:
\* none when the listing failed, all of its items otherwise.
Folded(listing, map, list, Entry(_), server_name) ==
    /\ Len(list') = Len(list) + Len(listing.items)
    /\ \A k \in DOMAIN list : list'[k] = list[k]
    /\ \A k \in DOMAIN listing.items :
        /\ list'[Len(list) + k] = Entry(listing.items[k])
        /\ DictGet(map', listing.items[k]) = server_name
    /\ DictKeys(map') = DictKeys(map) \cup Range(listing.items)
    /\ ~listing.ok => (list' = list /\ map' = map)

\* C10: a failure of list_resources, list_resource_templates or
\* list_prompts is swallowed: the failed kind contributes nothing, the other
\* list calls are all made and their results registered, the tools of the
\* server are registered, and the server is not reported as failed.
C10_OptionalFailureSwallowed ==
    [][LET b == behaviour'[Len(behaviour')]
           server_name == server_configs[idx].name
       IN  (/\ Iterated
            /\ b.fail = "none"
            /\ ~(b.resources.ok /\ b.templates.ok /\ b.prompts.ok)) =>
                /\ ~log'[Len(log')].reported
                /\ log'[Len(log')].calls =
                     <<"initialize", "list_tools", "list_resources",
                       "list_resource_templates", "list_prompts">>
                /\ Folded([ok |-> TRUE, items |-> b.tools], tool_to_server,
                          available_tools, LAMBDA n : ToolEntry(n, idx),
                          server_name)
                /\ Folded(b.resources, resource_to_server, available_resources,
                          ResourceEntry, server_name)
                /\ Folded(b.templates, resource_templates_to_server,
                          available_resource_templates, TemplateEntry,
                          server_name)
                /\ Folded(b.prompts, prompt_to_server, available_prompts,
                          PromptEntry, server_name)
                /\ DictHas(sessions', server_name)
                /\ DictGet(sessions', server_name) = idx]_vars

\* C10 witness: list_resources failed, yet the tools, templates and prompts
\* of the server are registered and no failure was reported.
C10_Witness ==
    /\ Len(behaviour) = 1
    /\ behaviour[1].fail = "none"
    /\ ~behaviour[1].resources.ok
    /\ behaviour[1].templates.ok /\ behaviour[1].prompts.ok
    /\ behaviour[1].tools # <<>>
    /\ ~log[1].reported
    /\ available_resources = <<>>
    /\ available_tools # <<>>
    /\ available_resource_templates # <<>>
    /\ available_prompts # <<>>

-----------------------------------------------------------------------------
(* Properties of MCP_ChatBot (specifications BotSpec, ResolveSpec,          *)
(* PromptSpec)                                                              *)

\* The uri starts with the part of the template before its first "{" (the
\* whole template when it has none).
PrefixMatches(uri, template) ==
    \E n \in 0..Len(template) :
        /\ \A k \in 1..n : template[k] # "{"
        /\ n = Len(template) \/ template[n + 1] = "{"
        /\ n <= Len(uri)
        /\ \A k \in 1..n : uri[k] = template[k]

\* C5: for a uri without an exact entry in resource_to_server, get_resource
\* selects a server exactly when some template's prefix (the text before
\* its first "{") starts the uri; the server selected owns such a template
\* and its session is the one read; with the single template
\* papers://{topic}/list the uri papers://ml/list selects its owner.
C5_TemplatePrefixMatch ==
    (result.op = "get_resource" /\ ~DictHas(resource_to_server, result.arg)) =>
        LET uri == result.arg
            Matching == {t \in DictKeys(resource_templates_to_server) :
                            PrefixMatches(uri, t)}
        IN  /\ (result.server # None) <=> (Matching # {})
            /\ result.server # None =>
                /\ \E t \in Matching :
                      DictGet(resource_templates_to_server, t) = result.server
                /\ DictHas(sessions, result.server)
                /\ result.session = DictGet(sessions, result.server)
            /\ (/\ DictKeys(resource_templates_to_server) = {Tmpl_PapersTopicList}
                /\ uri = Uri_PapersMlList) =>
                  result.server =
                      DictGet(resource_templates_to_server, Tmpl_PapersTopicList)

\* C5 witness: papers://ml/list resolved through the single template
\* papers://{topic}/list, with no resource registered.
C5_Witness ==
    /\ result.op = "get_resource"
    /\ result.arg = Uri_PapersMlList
    /\ resource_to_server = <<>>
    /\ DictKeys(resource_templates_to_server) = {Tmpl_PapersTopicList}
    /\ result.server = resource_templates_to_server[1][2]
    /\ result.outcome = "read"

\* C6: the teardown releases the acquired contexts in the exact reverse of
\* the order of their acquisition, all of them by the time it ends, each
\* session before the transport it runs on.
C6_ReverseOrderRelease ==
    /\ Len(released) <= Len(acquired)
    /\ \A k \in DOMAIN released :
          released[k].ctx = acquired[Len(acquired) + 1 - k]
    /\ pc \in {"returned", "raised"} => Len(released) = Len(acquired)
    /\ \A i, j \in DOMAIN released :
          (/\ released[i].ctx.kind = "transport"
           /\ released[j].ctx.kind = "session"
           /\ released[i].ctx.server = released[j].ctx.server) => j < i

\* C6 witness: two servers connected, their four contexts released.
C6_Witness ==
    /\ pc = "returned"
    /\ Len(acquired) = 4
    /\ Len(released) = 4
    /\ released[1].ctx = [kind |-> "session", server |-> 2]
    /\ released[4].ctx = [kind |-> "transport", server |-> 1]

\* C7: a release that fails is logged and not raised, and the contexts
\* acquired before it are still released, for any set of failing releases:
\* when the teardown has ended every acquired context has been released, and
\* an exception leaves connect_to_servers_and_run only if the connect phase
\* or the chat loop raised it.
C7_ReleaseFailureTolerated ==
    /\ \A k \in DOMAIN released : released[k].failed => released[k].logged
    /\ pc \in {"returned", "raised"} =>
          \A k \in DOMAIN acquired :
              \E j \in DOMAIN released : released[j].ctx = acquired[k]
    /\ pc = "raised" =>
          \/ \E i \in DOMAIN behaviour : behaviour[i].fail # "none"
          \/ result.op = "chat_loop"

\* C7 witness: two of four releases failed, among them the first, and the
\* teardown released everything and returned.
C7_Witness ==
    /\ pc = "returned"
    /\ Len(acquired) = 4
    /\ Len(released) = 4
    /\ released[1].failed /\ ~released[2].failed
    /\ released[3].failed /\ ~released[4].failed

\* Where the k-th text starts in the texts joined by one-character separators.
RECURSIVE Offset(_, _)
Offset(texts, k) ==
    IF k = 1 THEN 0 ELSE Offset(texts, k - 1) + Len(texts[k - 1]) + 1

\* text is the texts in order, with exactly one space between neighbours.
IsSpaceJoined(text, texts) ==
    /\ Len(text) = IF texts = <<>> THEN 0
                   ELSE Offset(texts, Len(texts)) + Len(texts[Len(texts)])
    /\ \A k \in DOMAIN texts :
        /\ \A c \in DOMAIN texts[k] : text[Offset(texts, k) + c] = texts[k][c]
        /\ k > 1 => text[Offset(texts, k)] = " "

\* C8: execute_prompt normalizes a str content to itself, an object with a
\* text field to that text, and a list of objects with text fields to their
\* texts in order joined by one space: "hello" gives "hello", a, b gives
\* "a b".
C8_ContentNormalization ==
    (/\ result.op = "execute_prompt"
     /\ result.outcome \in {"process_query", "process_query_with_forced_tools"}) =>
        LET c == result.arg.reply.content
            texts == [k \in DOMAIN c.items |-> c.items[k].text]
        IN  /\ c.shape \in {"str", "obj"} => result.text = c.text
            /\ (c.shape = "list" /\ \A k \in DOMAIN c.items : c.items[k].has_text)
                  => IsSpaceJoined(result.text, texts)
            /\ (c.shape = "list" /\ texts = <<<<"a">>, <<"b">>>>)
                  => result.text = <<"a", " ", "b">>

\* C8 witness: the list a, b normalized to "a b" and handed to process_query.
C8_Witness ==
    /\ result.op = "execute_prompt"
    /\ result.outcome = "process_query"
    /\ result.arg.reply.content.shape = "list"
    /\ result.arg.reply.content.items =
          <<[has_text |-> TRUE, text |-> <<"a">>],
            [has_text |-> TRUE, text |-> <<"b">>]>>
    /\ result.text = <<"a", " ", "b">>

-----------------------------------------------------------------------------
(* Ownership of the manager's contexts (specification Spec)                *)

\* The context of that kind of descriptor i.
Ctx(kind, i) == [kind |-> kind, server |-> i]

\* The exit stack still holds the context.
Held(kind, i) == Ctx(kind, i) \in Range(stack)

\* The context has been released by shutdown.
Released(kind, i) == \E k \in DOMAIN released : released[k].ctx = Ctx(kind, i)

\* Position of x in sequence f.
Pos(f, x) == CHOOSE k \in DOMAIN f : f[k] = x

\* Descriptor j has been processed and its steps up to step succeeded.
Passed(j, step) ==
    /\ j \in DOMAIN behaviour
    /\ behaviour[j].fail # "no_url"
    /\ Succeeded(behaviour[j], step)

\* C11: when the session or its initialize handshake fails for a server, the
\* transport acquired for that server is released before the next
\* descriptor is processed: while connect_all runs, the exit stack holds no
\* transport of a server whose session or handshake failed.
C11_TransportReleasedOnFailure ==
    pc = "loop" =>
        \A j \in DOMAIN behaviour :
            behaviour[j].fail \in {"session", "initialize"} => ~Held("transport", j)

\* C12: for an http descriptor whose channel was opened, the http client
\* was acquired on the same stack before the channel, is held as long as
\* the channel is held, and once shutdown has ended both are released, the
\* channel first.
C12_HttpClientBoundToChannel ==
    \A i \in DOMAIN behaviour :
        (server_configs[i].transport = "http" /\ Passed(i, "transport")) =>
            /\ Ctx("http_client", i) \in Range(acquired)
            /\ Ctx("transport", i) \in Range(acquired)
            /\ Pos(acquired, Ctx("http_client", i))
                  < Pos(acquired, Ctx("transport", i))
            /\ Held("transport", i) => Held("http_client", i)
            /\ Released("http_client", i) => Released("transport", i)
            /\ pc = "closed" =>
                  /\ Released("transport", i) /\ Released("http_client", i)
                  /\ ~Held("transport", i) /\ ~Held("http_client", i)

\* C12 witness: shutdown has ended after an http server connected; its
\* session, channel and http client were released in that order.
C12_Witness ==
    /\ pc = "closed"
    /\ Len(server_configs) = 1
    /\ server_configs[1].transport = "http"
    /\ behaviour[1].fail = "none"
    /\ [k \in DOMAIN released |-> released[k].ctx.kind]
          = <<"session", "transport", "http_client">>

\* C13: when two descriptors of the same name both connect, sessions holds
\* the name once, with the later session; the earlier session is not
\* released when it is replaced: it stays on the exit stack until shutdown,
\* which releases it.
C13_SameNameLastSessionWins ==
    \A i, j \in DOMAIN behaviour :
        (/\ i < j
         /\ server_configs[i].name = server_configs[j].name
         /\ Passed(i, "initialize") /\ Passed(j, "initialize")) =>
            LET name == server_configs[i].name
                last == CHOOSE k \in DOMAIN behaviour :
                          /\ server_configs[k].name = name
                          /\ Passed(k, "initialize")
                          /\ \A m \in DOMAIN behaviour :
                                (server_configs[m].name = name
                                 /\ Passed(m, "initialize")) => m <= k
            IN  /\ Count(sessions, {<<name, n>> : n \in DOMAIN behaviour}) = 1
                /\ DictGet(sessions, name) = last
                /\ Ctx("session", i) \in Range(acquired)
                /\ pc \in {"loop", "done"} =>
                      Held("session", i) /\ ~Released("session", i)
                /\ pc = "closed" => Released("session", i)

\* C13 witness: two servers of one name connected, the second session is
\* registered, the first is still held after connect_all returned.
C13_Witness ==
    /\ pc = "done"
    /\ Len(server_configs) = 2
    /\ server_configs[1].name = server_configs[2].name
    /\ behaviour[1].fail = "none" /\ behaviour[2].fail = "none"
    /\ DictGet(sessions, server_configs[1].name) = 2
    /\ Held("session", 1)

-----------------------------------------------------------------------------
(* Resource resolution (specification ResolveSpec)                         *)

\* The templates registered whose prefix starts the uri.
MatchingTemplates(uri) ==
    {t \in DictKeys(resource_templates_to_server) : PrefixMatches(uri, t)}

\* get_resource was asked for a uri that has no exact entry and matches no
\* template.
Unresolvable ==
    /\ result.op = "get_resource"
    /\ ~DictHas(resource_to_server, result.arg)
    /\ MatchingTemplates(result.arg) = {}

\* C14 as claimed: a uri with no exact entry and no matching template
\* yields not-found, no server is selected and no session is read.
C14_NoFurtherFallback ==
    Unresolvable =>
        /\ result.outcome = "not_found"
        /\ result.server = None
        /\ result.session = 0

\* C14 amended: for such a uri no server name is selected; the uri is read
\* from the session registered as "research" when it starts with papers://
\* and that session exists, and yields not-found with no session read in
\* every other case.
C14_FallbackOnlyToResearch ==
    Unresolvable =>
        /\ result.server = None
        /\ IF PrefixMatches(result.arg, PapersScheme) /\ DictHas(sessions, "research")
           THEN /\ result.outcome = "read"
                /\ result.session = DictGet(sessions, "research")
           ELSE /\ result.outcome = "not_found"
                /\ result.session = 0

\* C14 witness: papers://ml/list, unknown to every registry, was read from
\* the research session; notes://a would not be.
C14_Witness ==
    /\ Unresolvable
    /\ result.arg = Uri_PapersMlList
    /\ result.outcome = "read"
    /\ result.session = DictGet(sessions, "research")
    /\ resource_templates_to_server # <<>>

\* C20: when the uri is a key of resource_to_server, the server of that
\* entry is selected and its session read, whatever templates match.
C20_ExactEntryTakesPrecedence ==
    (result.op = "get_resource" /\ DictHas(resource_to_server, result.arg)) =>
        /\ result.server = DictGet(resource_to_server, result.arg)
        /\ result.session = DictGet(sessions, result.server)

-----------------------------------------------------------------------------
(* Prompt routing (specification PromptSpec)                               *)

\* C15: execute_prompt with a name that is no key of prompt_to_server
\* reports the prompt as not found, calls get_prompt on no session, hands
\* no text to process_query, and the chat loop goes on.
C15_UnknownPromptReported ==
    (/\ result.op = "execute_prompt"
     /\ ~DictHas(prompt_to_server, result.arg.name)) =>
        /\ result.outcome = "not_found"
        /\ result.session = 0
        /\ result.text = <<>>
        /\ pc = "chat"

\* C15 witness: prompt q is unknown while a server that lists prompt p is
\* connected, and the server would have answered with a content.
C15_Witness ==
    /\ result.op = "execute_prompt"
    /\ result.arg.name = "q"
    /\ result.arg.reply.kind = "content"
    /\ DictHas(prompt_to_server, "p")
    /\ sessions # <<>>
    /\ result.outcome = "not_found"

-----------------------------------------------------------------------------
(* Missing url (specification Spec)                                        *)

\* C16: the iteration of an sse or http descriptor without url reports the
\* failure of that server and acquires nothing: the exit stack, the
\* sessions and the registries are unchanged, no session operation is
\* invoked, and the loop goes on with the next descriptor.
C16_MissingUrlAcquiresNothing ==
    [][(/\ Iterated
        /\ server_configs[idx].transport \in {"sse", "http"}
        /\ ~server_configs[idx].url) =>
            /\ log'[Len(log')].reported
            /\ log'[Len(log')].calls = <<>>
            /\ UNCHANGED <<stack, acquired, sessions, registries>>
            /\ pc' = "loop"
            /\ idx' = idx + 1]_vars

\* C16 witness: an http descriptor without url was skipped, nothing of it
\* is held, and the descriptor after it connected.
C16_Witness ==
    /\ pc = "done"
    /\ Len(server_configs) = 2
    /\ server_configs[1].transport = "http" /\ ~server_configs[1].url
    /\ log[1].reported
    /\ behaviour[2].fail = "none"
    /\ \A k \in DOMAIN acquired : acquired[k].server = 2
    /\ DictKeys(sessions) = {server_configs[2].name}

-----------------------------------------------------------------------------
(* The chatbot's connect phase (specification BotSpec)                     *)

\* C17: a failure of one server's spawn, session entry, initialize or
\* list_tools does not abort the connect phase: once the connect phase is
\* over, every configured server has been processed, and every server whose
\* own steps succeed has its session registered.
C17_ConnectPhaseNotAborted ==
    pc # "connect" =>
        /\ Len(behaviour) = Len(server_configs)
        /\ \A j \in DOMAIN behaviour :
              behaviour[j].fail = "none" =>
                  DictHas(sessions, server_configs[j].name)

-----------------------------------------------------------------------------
(* process_query (specification BotSpec)                                   *)

\* The tool messages after position k that carry the call id.
ResultsFor(k, id) ==
    {j \in DOMAIN messages :
        j > k /\ messages[j].role = "tool" /\ messages[j].tool_call_id = id}

\* C18: when process_query is about to make a chat-completion request,
\* every tool invocation of every assistant message of the conversation has
\* exactly one tool message with its call id after it, whether or not its
\* tool name resolved.
C18_EveryToolCallAnswered ==
    pc = "query" =>
        \A k \in DOMAIN messages :
            \A c \in DOMAIN messages[k].tool_calls :
                Cardinality(ResultsFor(k, messages[k].tool_calls[c].id)) = 1

-----------------------------------------------------------------------------
(* The registries after the connect phase (specification BotSpec)          *)

\* C19: once the connect phase is over, no step of the query layer (a tool
\* call, a schema lookup, get_resource, list_prompts, execute_prompt, a pass
\* of process_query) changes sessions, a routing map or a presentation list.
C19_RegistriesFrozenAfterConnect ==
    [][(pc \in {"chat", "query", "done"}) =>
            UNCHANGED <<sessions, registries>>]_vars

\* C19 witness: a resource was read through a template while sessions and
\* every presentation list hold the entries of two connected servers.
C19_Witness ==
    /\ pc = "chat"
    /\ result.op = "get_resource"
    /\ result.outcome = "read"
    /\ ~DictHas(resource_to_server, result.arg)
    /\ Len(sessions) = 2
    /\ Len(available_tools) = 2
    /\ Len(available_resources) = 2
    /\ Len(available_resource_templates) = 2
    /\ Len(available_prompts) = 2

-----------------------------------------------------------------------------
(* Order of the template scan (specification ScanSpec)                     *)

\* The templates in the order of their discovery: the servers in connection
\* order, each server's listing in its own order.
RECURSIVE DiscoveredUpTo(_)
DiscoveredUpTo(n) ==
    IF n = 0 THEN <<>>
    ELSE DiscoveredUpTo(n - 1)
            \o (IF behaviour[n].fail = "none" THEN behaviour[n].templates.items
                ELSE <<>>)

Discovered == DiscoveredUpTo(Len(behaviour))

\* C21: for a uri without an exact entry that several discovered templates
\* match, get_resource selects the owner of the template discovered first
\* among those that match, that owner is a server that listed it, and the
\* read goes to the session registered under the owner's name.
C21_FirstDiscoveredTemplateWins ==
    (result.op = "get_resource" /\ ~DictHas(resource_to_server, result.arg)) =>
        LET hits == {k \in DOMAIN Discovered :
                        PrefixMatches(result.arg, Discovered[k])}
            first == CHOOSE k \in hits : \A j \in hits : k <= j
        IN  hits # {} =>
                /\ result.server =
                      DictGet(resource_templates_to_server, Discovered[first])
                /\ result.session = DictGet(sessions, result.server)
                /\ \E j \in DOMAIN behaviour :
                      /\ server_configs[j].name = result.server
                      /\ behaviour[j].fail = "none"
                      /\ Discovered[first] \in Range(behaviour[j].templates.items)

\* C21 witness: one server listed "{uri}" after papers://{topic}/list, a
\* second server of another name listed "{uri}" again; papers://ml/list
\* matches both templates and the owner of the first discovered is selected.
C21_Witness ==
    /\ result.op = "get_resource"
    /\ result.arg = Uri_PapersMlList
    /\ Len(behaviour) = 2
    /\ server_configs[1].name # server_configs[2].name
    /\ behaviour[1].templates.items = <<Tmpl_PapersTopicList, Tmpl_Any>>
    /\ behaviour[2].templates.items = <<Tmpl_Any>>
    /\ resource_to_server = <<>>
    /\ result.server = server_configs[1].name
    /\ DictGet(resource_templates_to_server, Tmpl_Any) = server_configs[2].name

-----------------------------------------------------------------------------
(* Routing maps and sessions of MCPClientManager (DiscoverSpec, ToolSpec)    *)

\* The four routing maps of the manager.
RoutingMaps ==
    {tool_to_server, resource_to_server, resource_templates_to_server,
     prompt_to_server}

\* C22: every server name stored as a value of one of the four routing maps
\* is a key of sessions, so the lookup self.sessions[server_name] of
\* call_tool raises no KeyError for any tool name.
C22_RoutedServersHaveSessions ==
    /\ \A map \in RoutingMaps : \A k \in DOMAIN map : DictHas(sessions, map[k][2])
    /\ \A tool_name \in ToolNames : CallToolResult(tool_name).outcome # "KeyError"

\* C22 witness: connect_all has returned, all four maps have entries, a
\* server whose list_tools failed keeps its session, and call_tool("X")
\* reaches a session.
C22_Witness ==
    /\ pc = "done"
    /\ \A map \in RoutingMaps : map # <<>>
    /\ \E j \in DOMAIN behaviour :
          behaviour[j].fail = "list_tools" /\ DictHas(sessions, server_configs[j].name)
    /\ CallToolResult("X").outcome = "called"

\* C23: when call_tool proxies a call of a tool, the session it calls is the
\* session of a server whose own list_tools response contained that tool,
\* also when two descriptors carry the same server name.
C23_CalledSessionListedTool ==
    (result.op = "call_tool" /\ result.outcome = "called") =>
        result.session \in Exposers(result.arg)

\* C24: for a tool name that call_tool resolves, get_tool_schema returns the
\* schema advertised by the server whose session call_tool calls, also when
\* several servers advertise the name.
C24_SchemaOfRoutedServer ==
    (result.op = "get_tool_schema"
        /\ CallToolResult(result.arg).outcome = "called") =>
        result.value = CallToolResult(result.arg).session

\* The names a presentation list shows: the tool names, the resource uris,
\* the uri templates and the prompt names.
ListedTools == {available_tools[k].function.name : k \in DOMAIN available_tools}

ListedResources == {available_resources[k].uri : k \in DOMAIN available_resources}

ListedTemplates ==
    {available_resource_templates[k].uriTemplate :
        k \in DOMAIN available_resource_templates}

ListedPrompts == {available_prompts[k].name : k \in DOMAIN available_prompts}

\* The names of the lists are the keys of the maps, for the four kinds.
ListsMatchMaps ==
    /\ ListedTools = DictKeys(tool_to_server)
    /\ ListedResources = DictKeys(resource_to_server)
    /\ ListedTemplates = DictKeys(resource_templates_to_server)
    /\ ListedPrompts = DictKeys(prompt_to_server)

\* C25: after each server's discovery the names of every presentation list
\* are the keys of the matching routing map, and call_tool of a name taken
\* from available_tools does not end with the unknown-tool ValueError.
C25_OfferedToolsAreRoutable ==
    /\ ListsMatchMaps
    /\ (result.op = "call_tool" /\ result.arg \in ListedTools) =>
            result.outcome # "ValueError"

-----------------------------------------------------------------------------
(* The ends of connect_to_servers_and_run (specification BotSpec)           *)

\* How many times the release of context c has been attempted.
Attempts(c) == Cardinality({k \in DOMAIN released : released[k].ctx = c})

\* The step issues an operation on the session of descriptor s: a call of the
\* connect phase, the call of a chat command, a tool call of process_query.
SessionOpIssued(s) ==
    \/ /\ Len(log') > Len(log)
       /\ log'[Len(log')].calls # <<>>
       /\ s = idx
    \/ result' # result /\ result'.session = s
    \/ \E j \in DOMAIN messages' :
          j > Len(messages) /\ messages'[j].role = "tool" /\ messages'[j].session = s

\* C26: however connect_to_servers_and_run ends (a connection step failed,
\* the chat loop raised, the user quit, nothing was configured), the release
\* of every context that was entered has been attempted exactly once and of
\* no other, and no step issues an operation on a session whose release has
\* been attempted.
C26_ReleasedOnceThenUnused ==
    /\ [](\A c \in Range(acquired) :
            /\ Attempts(c) <= 1
            /\ pc \in {"returned", "raised"} => Attempts(c) = 1)
    /\ [](\A k \in DOMAIN released : released[k].ctx \in Range(acquired))
    /\ [][\A s \in DOMAIN server_configs :
            SessionOpIssued(s) => ~Released("session", s)]_vars

\* C26 witness: the first server was connected, the second one entered its
\* transport and failed to enter its session; the three contexts were
\* released, one release raising, and the exception left the coroutine.
C26_Witness ==
    /\ pc = "raised"
    /\ Len(behaviour) = 2
    /\ behaviour[2].fail = "session"
    /\ Len(acquired) = 3
    /\ \A c \in Range(acquired) : Attempts(c) = 1
    /\ released[1].ctx = Ctx("transport", 2)
    /\ released[1].failed

=============================================================================
